---- MODULE Spec2Model ----
(***************************************************************************)
(* Model of the three Billboard command-line scripts:                      *)
(*   scripts/charts_and_weeks.py   (history walker, year-end probe)        *)
(*   scripts/chart_week_dump.py    (week dumper)                           *)
(*   scripts/export_chart_json.py  (JSON exporter)                         *)
(* The chart provider (billboard.ChartData) and the valid-dates download   *)
(* are external; each call is a nondeterministic choice over what they can *)
(* answer.  ISO dates are modelled as day numbers 1..MaxDate: on zero-     *)
(* padded YYYY-MM-DD strings the string order the code uses and the date   *)
(* order coincide.                                                         *)
(***************************************************************************)
EXTENDS Integers, Sequences, FiniteSets, TLC

\* ---------------------------------------------------------------- bounds
MaxDate == 3
MaxLimit == 3
MaxYear == 3
MaxWeek == 2          \* exporter: the dates the valid-dates list and the provider use
MaxSuffix == 1        \* exporter: largest -n suffix present before the run
MaxEntries == 2       \* entries of a snapshot exported in --date mode

\* Python's None (also stands for an empty string where the code tests truthiness)
None == -99

Dates == 1..MaxDate
OptDates == Dates \cup {None}

\* Python truthiness of an optional int / optional string
Truthy(x) == x # None /\ x # 0

\* A chart snapshot as the scripts see it: chart.date, chart.previousDate and
\* the entries (bool(chart) is len(chart.entries) > 0).
Snapshot(d, p, es) == [date |-> d, previousDate |-> p, entries |-> es]

NoChart == Snapshot(None, None, <<>>)

ChartTruthy(c) == Len(c.entries) > 0

VARIABLES
  pc,            \* position of the running script
  exit_code,     \* process exit status (None while running)
  fetches,       \* number of billboard.ChartData calls made
  sleeps,        \* number of time.sleep calls made
  chart,         \* the snapshot held in the local variable chart
  start, end, limit, count,      \* iter_weeks parameters and counter
  emitted,       \* dates yielded by iter_weeks, in order
  visited,       \* resolved dates of the snapshots the loop body ran on
  min_year, max_year, y, years_found, probed, result,  \* list_year_end_years
  args,          \* the parsed command line of the dumper / the exporter
  warned,        \* dumper: the "requested .., got .." note went to stderr
  table,         \* dumper: print_table was called
  json_file, csv_file,   \* dumper: the --json / --csv file was written
  downloaded,    \* exporter: the valid-dates list was requested
  dates,         \* exporter: result of load_valid_dates
  to_fetch,      \* exporter: weeks still to export
  fs,            \* exporter: the output directory, path -> document
  writes         \* exporter: the files written by this run, in order

walkerVars == <<start, end, limit, count, emitted, visited>>
yearVars == <<min_year, max_year, y, years_found, probed, result>>
dumperVars == <<warned, table, json_file, csv_file>>
exporterVars == <<downloaded, dates, to_fetch, fs, writes>>
vars == <<pc, exit_code, fetches, sleeps, chart, walkerVars, yearVars,
          args, dumperVars, exporterVars>>

\* ------------------------------------------------- charts_and_weeks.py
\* parse_date is strptime(...).date(): day numbers stand for the parsed dates.
parse_date(s) == s

\* within_bounds without the check of line 55
within_bounds_no_end(dstr, st, en) ==
  IF ~Truthy(dstr) THEN FALSE
  ELSE IF st # None /\ parse_date(dstr) < st THEN FALSE
  ELSE TRUE

within_bounds(dstr, st, en) ==
  IF ~Truthy(dstr) THEN FALSE
  ELSE IF st # None /\ parse_date(dstr) < st THEN FALSE
  ELSE IF en # None /\ parse_date(dstr) > en THEN FALSE
  ELSE TRUE

\* Entries as far as the walker looks at them: empty or not.
WalkerEntryLists == {<<>>, <<1>>}

\* What the provider may answer to ChartData(name) (req = None, latest) or
\* ChartData(name, date=req): the nearest snapshot at or before the request,
\* whose previous-date pointer is strictly earlier (finite, acyclic chain).
WalkerAnswers(req) ==
  { Snapshot(d, p, es) :
      d \in {x \in OptDates : x = None \/ req = None \/ x <= req},
      p \in OptDates, es \in WalkerEntryLists }

Acyclic(req, c) ==
  \/ c.previousDate = None
  \/ /\ c.date # None /\ c.previousDate < c.date
  \/ /\ c.date = None /\ req # None /\ c.previousDate < req

WalkerInert ==
  /\ start = None /\ end = None /\ limit = None /\ count = 0
  /\ emitted = <<>> /\ visited = <<>>

YearInert ==
  /\ min_year = 0 /\ max_year = 0 /\ y = 0
  /\ years_found = <<>> /\ probed = <<>> /\ result = <<>>

DumperInert ==
  /\ warned = FALSE /\ table = FALSE /\ json_file = FALSE /\ csv_file = FALSE

ExporterInert ==
  /\ downloaded = "no" /\ dates = <<>> /\ to_fetch = <<>>
  /\ fs = <<>> /\ writes = <<>>

NoArgs == [chart |-> "hot-100"]

InitWalker ==
  /\ pc = "iter_weeks"
  /\ exit_code = None
  /\ fetches = 0 /\ sleeps = 0
  /\ chart = NoChart
  /\ start \in OptDates /\ end \in OptDates
  /\ limit \in (0..MaxLimit) \cup {None}
  /\ count = 0 /\ emitted = <<>> /\ visited = <<>>
  /\ YearInert
  /\ args = NoArgs /\ DumperInert /\ ExporterInert

\* iter_weeks lines 66-68: count = 0, fetch the latest chart.  An exception
\* leaves the generator and is caught by main (lines 153-155): exit 1.
IterWeeksFirstFetch ==
  /\ pc = "iter_weeks"
  /\ fetches' = fetches + 1
  /\ count' = 0
  /\ \/ \E c \in WalkerAnswers(None) :
          /\ Acyclic(None, c)
          /\ chart' = c /\ pc' = "while" /\ exit_code' = exit_code
     \/ /\ chart' = chart /\ pc' = "failed" /\ exit_code' = 1
  /\ UNCHANGED <<sleeps, start, end, limit, emitted, visited, yearVars,
                 args, dumperVars, exporterVars>>

\* The yield of lines 71-76.
Yielded(c) ==
  IF start # None \/ end # None
    THEN IF within_bounds(c.date, start, end) THEN <<c.date>> ELSE <<>>
    ELSE <<c.date>>

\* the test of line 79 with > for >=
LimitReached_off_by_one(lim, cnt) == Truthy(lim) /\ cnt > lim

\* line 79: if limit and count >= limit
LimitReached(lim, cnt) == Truthy(lim) /\ cnt >= lim

\* the loop body with a break on an out-of-bounds date
WhileBody_stop_out_of_bounds ==
  /\ pc = "while"
  /\ ChartTruthy(chart) /\ Truthy(chart.date)
  /\ emitted' = emitted \o Yielded(chart)
  /\ visited' = Append(visited, chart.date)
  /\ count' = count + 1
  /\ IF \/ LimitReached(limit, count + 1) \/ ~Truthy(chart.previousDate)
        \/ Yielded(chart) = <<>>
       THEN /\ pc' = "done" /\ exit_code' = 0
            /\ UNCHANGED <<chart, fetches, sleeps>>
       ELSE /\ sleeps' = sleeps + 1
            /\ fetches' = fetches + 1
            /\ \/ \E c \in WalkerAnswers(chart.previousDate) :
                    /\ Acyclic(chart.previousDate, c)
                    /\ chart' = c /\ pc' = "while" /\ exit_code' = exit_code
               \/ /\ chart' = chart /\ pc' = "failed" /\ exit_code' = 1
  /\ UNCHANGED <<start, end, limit, yearVars, args, dumperVars, exporterVars>>

\* One iteration of the while loop, lines 70-86.
WhileBody ==
  /\ pc = "while"
  /\ ChartTruthy(chart) /\ Truthy(chart.date)
  /\ emitted' = emitted \o Yielded(chart)
  /\ visited' = Append(visited, chart.date)
  /\ count' = count + 1
  /\ IF LimitReached(limit, count + 1) \/ ~Truthy(chart.previousDate)
       THEN /\ pc' = "done" /\ exit_code' = 0
            /\ UNCHANGED <<chart, fetches, sleeps>>
       ELSE /\ sleeps' = sleeps + 1
            /\ fetches' = fetches + 1
            /\ \/ \E c \in WalkerAnswers(chart.previousDate) :
                    /\ Acyclic(chart.previousDate, c)
                    /\ chart' = c /\ pc' = "while" /\ exit_code' = exit_code
               \/ /\ chart' = chart /\ pc' = "failed" /\ exit_code' = 1
  /\ UNCHANGED <<start, end, limit, yearVars, args, dumperVars, exporterVars>>

\* The loop guard of line 70 fails: the generator returns, main prints the
\* total and exits 0.
WhileExit ==
  /\ pc = "while"
  /\ ~(ChartTruthy(chart) /\ Truthy(chart.date))
  /\ pc' = "done" /\ exit_code' = 0
  /\ UNCHANGED <<fetches, sleeps, chart, walkerVars, yearVars,
                 args, dumperVars, exporterVars>>

NextWalker == IterWeeksFirstFetch \/ WhileBody \/ WhileExit

SpecWalker == InitWalker /\ [][NextWalker]_vars

\* ---------------------------------------------- list_year_end_years
Years == 1..MaxYear

\* Insertion of x into an ascending sequence.
RECURSIVE InsertAsc(_, _)
InsertAsc(x, s) ==
  IF s = <<>> THEN <<x>>
  ELSE IF x <= Head(s) THEN <<x>> \o s
  ELSE <<Head(s)>> \o InsertAsc(x, Tail(s))

\* a return of years_found as collected, without the sort
sorted_missing(s) == s

\* sorted(years_found), line 108
RECURSIVE sorted(_)
sorted(s) == IF s = <<>> THEN <<>> ELSE InsertAsc(Head(s), sorted(Tail(s)))

\* What one year's ChartData(chart_name, year=str(y)) may do.
ProbeOutcomes == {"raise", "empty", "entries"}

InitYearEnd ==
  /\ pc = "for"
  /\ exit_code = None
  /\ fetches = 0 /\ sleeps = 0
  /\ chart = NoChart
  /\ WalkerInert
  /\ min_year \in Years /\ max_year \in Years
  /\ y = max_year
  /\ years_found = <<>> /\ probed = <<>> /\ result = <<>>
  /\ args = NoArgs /\ DumperInert /\ ExporterInert

\* One iteration of for y in range(max_year, min_year - 1, -1), lines 98-107.
Probe ==
  /\ pc = "for"
  /\ y >= min_year
  /\ \E o \in ProbeOutcomes :
       /\ probed' = Append(probed, [year |-> y, outcome |-> o])
       /\ years_found' = IF o = "entries" THEN Append(years_found, y)
                         ELSE years_found
  /\ fetches' = fetches + 1
  /\ sleeps' = sleeps + 1
  /\ y' = y - 1
  /\ UNCHANGED <<pc, exit_code, chart, walkerVars, min_year, max_year, result,
                 args, dumperVars, exporterVars>>

\* The range is exhausted: return sorted(years_found), line 108; main prints
\* the years and exits 0.
ReturnYears ==
  /\ pc = "for"
  /\ y < min_year
  /\ result' = sorted(years_found)
  /\ pc' = "done" /\ exit_code' = 0
  /\ UNCHANGED <<fetches, sleeps, chart, walkerVars, min_year, max_year, y,
                 years_found, probed, args, dumperVars, exporterVars>>

NextYearEnd == Probe \/ ReturnYears

SpecYearEnd == InitYearEnd /\ [][NextYearEnd]_vars

\* ------------------------------------------------- chart_week_dump.py
\* A --date / --since argument: a well-formed date, or a string strptime
\* rejects with ValueError.
BadDate == 0
DateArgs == Dates \cup {BadDate}

\* validate_date, lines 32-38 (and export_chart_json.py lines 40-46): the
\* string itself when strptime accepts it, otherwise exit code 2.
validate_date(s) == IF s \in Dates THEN [ok |-> TRUE, value |-> s, code |-> None]
                    ELSE [ok |-> FALSE, value |-> s, code |-> 2]

\* What ChartData(chart, date=.., timeout=..) may return to the dumper: an
\* empty snapshot, or entries with a resolved date (nearest available).
DumperAnswers ==
  { Snapshot(d, None, es) : d \in OptDates, es \in WalkerEntryLists } \
  { Snapshot(None, None, <<1>>) }

InitDumper ==
  /\ pc = "validate_date"
  /\ exit_code = None
  /\ fetches = 0 /\ sleeps = 0
  /\ chart = NoChart
  /\ WalkerInert /\ YearInert /\ ExporterInert
  /\ args \in [chart : {"hot-100"}, date : DateArgs,
               json : BOOLEAN, csv : BOOLEAN]
  /\ DumperInert

\* main line 89
DumperValidate ==
  /\ pc = "validate_date"
  /\ IF validate_date(args.date).ok
       THEN pc' = "fetch" /\ exit_code' = exit_code
       ELSE pc' = "exit" /\ exit_code' = validate_date(args.date).code
  /\ UNCHANGED <<fetches, sleeps, chart, walkerVars, yearVars, args,
                 dumperVars, exporterVars>>

\* main lines 91-95
DumperFetch ==
  /\ pc = "fetch"
  /\ fetches' = fetches + 1
  /\ \/ \E c \in DumperAnswers :
          chart' = c /\ pc' = "check" /\ exit_code' = exit_code
     \/ chart' = chart /\ pc' = "exit" /\ exit_code' = 1
  /\ UNCHANGED <<sleeps, walkerVars, yearVars, args, dumperVars, exporterVars>>

\* the check of lines 97-102 with the note also taken as fatal
DumperCheck_mismatch_fatal ==
  /\ pc = "check"
  /\ IF ~ChartTruthy(chart) \/ chart.date # args.date
       THEN /\ warned' = ChartTruthy(chart)
            /\ pc' = "exit" /\ exit_code' = 1
       ELSE /\ warned' = warned /\ pc' = "output" /\ exit_code' = exit_code
  /\ UNCHANGED <<fetches, sleeps, chart, walkerVars, yearVars, args,
                 table, json_file, csv_file, exporterVars>>

\* main lines 97-102
DumperCheck ==
  /\ pc = "check"
  /\ IF ~ChartTruthy(chart) \/ chart.date # args.date
       THEN IF ChartTruthy(chart)
              THEN /\ warned' = TRUE
                   /\ pc' = "output" /\ exit_code' = exit_code
              ELSE /\ warned' = warned
                   /\ pc' = "exit" /\ exit_code' = 1
       ELSE /\ warned' = warned /\ pc' = "output" /\ exit_code' = exit_code
  /\ UNCHANGED <<fetches, sleeps, chart, walkerVars, yearVars, args,
                 table, json_file, csv_file, exporterVars>>

\* main lines 104-124: rows, print_table, the JSON file, the CSV file
DumperOutput ==
  /\ pc = "output"
  /\ table' = TRUE
  /\ json_file' = args.json
  /\ csv_file' = args.csv
  /\ pc' = "exit" /\ exit_code' = 0
  /\ UNCHANGED <<fetches, sleeps, chart, walkerVars, yearVars, args,
                 warned, exporterVars>>

NextDumper == DumperValidate \/ DumperFetch \/ DumperCheck \/ DumperOutput

SpecDumper == InitDumper /\ [][NextDumper]_vars


\* ------------------------------------------------ export_chart_json.py
\* A slug argument is a sequence of pieces; the piece " " is whitespace.
ALLOWED_CHARTS ==
  { <<"hot-100">>, <<"alternative-airplay">>, <<"country-songs">>,
    <<"hot-mainstream-rock-tracks">>, <<"latin-airplay">>,
    <<"r-and-b-songs">>, <<"rap-song">> }

SlugArgs == { <<"hot-100">>, <<" ", "rap-song", " ">>, <<"not-a-real-chart">>,
              <<"rap-song", " ", "x">> }

RECURSIVE lstrip(_)
lstrip(s) == IF s # <<>> /\ Head(s) = " " THEN lstrip(Tail(s)) ELSE s

RECURSIVE rstrip(_)
rstrip(s) == IF s # <<>> /\ s[Len(s)] = " " THEN rstrip(SubSeq(s, 1, Len(s) - 1))
             ELSE s

\* str.strip(), line 120
strip(s) == rstrip(lstrip(s))

\* line 121: chart in ALLOWED_CHARTS
SlugAllowed(c) == c \in ALLOWED_CHARTS

Weeks == 1..MaxWeek

\* Output paths: Path(d, 0) is public/charts/<slug>/<slug>-<d>.json and
\* Path(d, n) is public/charts/<slug>/<slug>-<d>-<n>.json; ExplicitOut is the
\* file named by --out.
Path(d, n) == <<d, n>>
ExplicitOut == <<0, 0>>
DefaultPaths == { Path(d, n) : d \in Weeks, n \in 0..(MaxSuffix + MaxWeek + 1) }
AllPaths == DefaultPaths \cup {ExplicitOut}

\* The files present before the run are those of one resolved date (the
\* path search of lines 98-101 only looks at names of the date it exports)
\* with suffixes up to MaxSuffix, and possibly the --out file.
\* Documents: the payload {"date": .., "data": [..]} of line 91.
NoFile == [date |-> None, data |-> <<>>]
OldDoc == [date |-> 0, data |-> <<>>]

\* os.path.exists
Exists(f, p) == p \in DOMAIN f /\ f[p] # NoFile

\* the normalisation of line 79 without the test for zero
last_week_keeps_zero(lastPos) == IF lastPos = None THEN None ELSE lastPos

\* line 79
last_week(lastPos) == IF lastPos = None \/ lastPos = 0 THEN None ELSE lastPos

\* lines 77-89; song, artist, peak_position, weeks_on_chart and new are
\* copied from the entry like this_week.
Data(entries) ==
  [i \in 1..Len(entries) |->
     [this_week |-> entries[i].rank,
      peak_position |-> entries[i].peakPos,
      last_week |-> last_week(entries[i].lastPos)]]

RECURSIVE FirstFree(_, _, _)
FirstFree(f, d, n) == IF Exists(f, Path(d, n)) THEN FirstFree(f, d, n + 1) ELSE n

\* the suffix search stopped at -1
default_path_no_loop(f, d) ==
  IF Exists(f, Path(d, 0)) THEN Path(d, 1) ELSE Path(d, 0)

\* lines 95-102
default_path(f, d) ==
  IF Exists(f, Path(d, 0)) THEN Path(d, FirstFree(f, d, 1)) ELSE Path(d, 0)

\* Chart entries: rank, peakPos and lastPos (None, 0 or a position).
Entry == [rank : 1..2, peakPos : {1}, lastPos : {None} \cup (0..1)]

SeqsUpTo(S, n) == UNION { [1..k -> S] : k \in 0..n }

\* What ChartData(chart_slug, date=week, timeout=..) may return to the
\* exporter: an empty snapshot or entries with a resolved date.
\* A --date run is explored with every list of up to MaxEntries entries, a
\* --since run (several exports) with the one-entry lists of rank 1.
ExporterEntryLists(bulk) ==
  IF bulk THEN { <<e>> : e \in { x \in Entry : x.rank = 1 } }
  ELSE SeqsUpTo(Entry, MaxEntries) \ {<<>>}

ExporterAnswers(bulk) ==
  { Snapshot(d, None, es) : d \in Weeks, es \in ExporterEntryLists(bulk) }
  \cup { Snapshot(None, None, <<>>) }

RECURSIVE sorted_set(_)
sorted_set(S) ==
  IF S = {} THEN <<>>
  ELSE LET m == CHOOSE x \in S : \A z \in S : x <= z
       IN <<m>> \o sorted_set(S \ {m})

SetOf(seq) == { seq[i] : i \in 1..Len(seq) }

\* the membership test of line 127 left out
SinceKnown_unchecked(since, ds) == TRUE

\* line 127: since in dates
SinceKnown(since, ds) == since \in SetOf(ds)

InitExporter ==
  /\ pc = "main"
  /\ exit_code = None
  /\ fetches = 0 /\ sleeps = 0
  /\ chart = NoChart
  /\ WalkerInert /\ YearInert /\ DumperInert
  /\ args \in { a \in [chart : SlugArgs,
                       date : (Weeks \cup {BadDate, None}),
                       since : (Weeks \cup {BadDate, None}),
                       out : {<<>>, ExplicitOut}] :
                  (a.date = None) # (a.since = None) }
  /\ downloaded = "no" /\ dates = <<>> /\ to_fetch = <<>>
  /\ \E d0 \in Weeks :
       \E present \in SUBSET ({ Path(d0, n) : n \in 0..MaxSuffix }
                               \cup (IF args.out = <<>> THEN {} ELSE {ExplicitOut})) :
         fs = [p \in AllPaths |-> IF p \in present THEN OldDoc ELSE NoFile]
  /\ writes = <<>>

\* main lines 119-123
ExporterCheckSlug ==
  /\ pc = "main"
  /\ IF SlugAllowed(strip(args.chart))
       THEN pc' = "args" /\ exit_code' = exit_code
       ELSE pc' = "exit" /\ exit_code' = 2
  /\ UNCHANGED <<fetches, sleeps, chart, walkerVars, yearVars, args,
                 dumperVars, exporterVars>>

\* main lines 124-125 and 137: validate_date of --since or of --date
ExporterValidate ==
  /\ pc = "args"
  /\ IF args.since # None
       THEN /\ to_fetch' = to_fetch
            /\ IF validate_date(args.since).ok
                 THEN pc' = "load_valid_dates" /\ exit_code' = exit_code
                 ELSE pc' = "exit" /\ exit_code' = validate_date(args.since).code
       ELSE IF validate_date(args.date).ok
              THEN /\ to_fetch' = <<validate_date(args.date).value>>
                   /\ pc' = "export_chart" /\ exit_code' = exit_code
              ELSE /\ to_fetch' = to_fetch
                   /\ pc' = "exit" /\ exit_code' = validate_date(args.date).code
  /\ UNCHANGED <<fetches, sleeps, chart, walkerVars, yearVars, args,
                 dumperVars, downloaded, dates, fs, writes>>

\* main lines 126-133 with load_valid_dates (lines 49-65): the download or
\* the parse fails (exit 1), or the payload is a list of date strings.
ExporterLoadDates ==
  /\ pc = "load_valid_dates"
  /\ \/ /\ downloaded' = "failed"
        /\ pc' = "exit" /\ exit_code' = 1
        /\ UNCHANGED <<dates, to_fetch>>
     \/ \E data \in SeqsUpTo(Weeks, MaxWeek) :
          LET ds == sorted_set(SetOf(data))
              tf == SelectSeq(ds, LAMBDA d : d >= args.since)
          IN /\ downloaded' = "ok"
             /\ dates' = ds
             /\ IF ~SinceKnown(args.since, ds)
                  THEN /\ pc' = "exit" /\ exit_code' = 2
                       /\ to_fetch' = to_fetch
                  ELSE IF tf = <<>>
                    THEN /\ pc' = "exit" /\ exit_code' = 1
                         /\ to_fetch' = to_fetch
                    ELSE /\ pc' = "export_chart" /\ exit_code' = exit_code
                         /\ to_fetch' = tf
  /\ UNCHANGED <<fetches, sleeps, chart, walkerVars, yearVars, args,
                 dumperVars, fs, writes>>

\* a failed week skipped, the loop going on with the next one
on_fetch_failure_continue(tf) ==
  IF Tail(tf) = <<>> THEN [pc |-> "exit", exit_code |-> 1, to_fetch |-> Tail(tf)]
  ELSE [pc |-> "export_chart", exit_code |-> None, to_fetch |-> Tail(tf)]

\* lines 72-74, and an exception of line 70 that nothing catches: the
\* interpreter ends with status 1.
on_fetch_failure(tf) == [pc |-> "exit", exit_code |-> 1, to_fetch |-> tf]

\* export_chart(chart, week, args.out, args.timeout) for the next week of
\* the loop of lines 134-135 (or the single call of line 138), lines 68-115;
\* after the last week main returns and the exit status is 0.
ExportChart ==
  /\ pc = "export_chart"
  /\ to_fetch # <<>>
  /\ fetches' = fetches + 1
  /\ \/ /\ pc' = on_fetch_failure(to_fetch).pc
        /\ exit_code' = on_fetch_failure(to_fetch).exit_code
        /\ to_fetch' = on_fetch_failure(to_fetch).to_fetch
        /\ UNCHANGED <<chart, fs, writes>>
     \/ \E c \in ExporterAnswers(args.since # None) :
          /\ chart' = c
          /\ IF ~ChartTruthy(c)
               THEN /\ pc' = on_fetch_failure(to_fetch).pc
                    /\ exit_code' = on_fetch_failure(to_fetch).exit_code
                    /\ to_fetch' = on_fetch_failure(to_fetch).to_fetch
                    /\ UNCHANGED <<fs, writes>>
               ELSE LET payload == [date |-> c.date, data |-> Data(c.entries)]
                        out_path == IF args.out = <<>>
                                      THEN default_path(fs, c.date)
                                      ELSE args.out
                    IN /\ fs' = [fs EXCEPT ![out_path] = payload]
                       /\ writes' = Append(writes,
                            [path |-> out_path, week |-> Head(to_fetch),
                             doc |-> payload, entries |-> c.entries,
                             existed |-> Exists(fs, out_path),
                             prior |-> {n \in 0..(MaxSuffix + MaxWeek + 1) :
                                          Exists(fs, Path(c.date, n))}])
                       /\ to_fetch' = Tail(to_fetch)
                       /\ IF Tail(to_fetch) = <<>>
                            THEN pc' = "exit" /\ exit_code' = 0
                            ELSE pc' = "export_chart" /\ exit_code' = exit_code
  /\ UNCHANGED <<sleeps, walkerVars, yearVars, args, dumperVars,
                 downloaded, dates>>

NextExporter ==
  ExporterCheckSlug \/ ExporterValidate \/ ExporterLoadDates \/ ExportChart

SpecExporter == InitExporter /\ [][NextExporter]_vars


\* ------------------------------------------------------------- claims
InRange(d) == (start = None \/ start <= d) /\ (end = None \/ d <= end)

\* C1: with both start and end supplied every emitted date lies in
\* [start, end]; with neither supplied the emitted dates are exactly the
\* resolved dates of the snapshots visited, in visiting order.
C1_EmittedWithinBounds ==
  /\ (start # None /\ end # None) =>
        \A i \in 1..Len(emitted) : start <= emitted[i] /\ emitted[i] <= end
  /\ (start = None /\ end = None) => emitted = visited

C1_Witness ==
  /\ pc = "done" /\ start # None /\ end # None
  /\ Len(emitted) >= 1 /\ Len(visited) >= 3
  /\ \E i \in 1..Len(visited) : visited[i] > end
  /\ \E i \in 1..Len(visited) : visited[i] < start

C10_SkippedStillCounts ==
  /\ count = Len(visited)
  /\ emitted = SelectSeq(visited, InRange)
  /\ (limit # None /\ limit >= 1) => fetches <= limit
  /\ sleeps = IF fetches = 0 THEN 0 ELSE fetches - 1
  /\ pc = "done" =>
        \/ limit # None /\ limit >= 1 /\ count >= limit
        \/ chart.previousDate = None
        \/ Len(chart.entries) = 0
        \/ chart.date = None

C10_Witness ==
  /\ pc = "done" /\ limit # None /\ limit >= 3 /\ count = limit
  /\ Len(emitted) = 1 /\ emitted[1] = visited[3]
  /\ fetches = 3 /\ sleeps = 2

\* C9: every year from max_year down to min_year is probed exactly once in
\* descending order whatever the fetches raise, and the returned list is
\* exactly the years whose fetch gave entries, ascending, without duplicates.
C9_YearEndProbe ==
  /\ \A i \in 1..Len(probed) : probed[i].year = max_year - (i - 1)
  /\ pc = "for" => Len(probed) = max_year - y
  /\ pc = "done" =>
       /\ Len(probed) = IF max_year >= min_year THEN max_year - min_year + 1 ELSE 0
       /\ \A i \in 1..Len(result) : \A j \in 1..Len(result) :
             i < j => result[i] < result[j]
       /\ {result[i] : i \in 1..Len(result)} =
             {probed[i].year : i \in {k \in 1..Len(probed) : probed[k].outcome = "entries"}}

C9_Witness ==
  /\ pc = "done" /\ Len(probed) = 3
  /\ probed[1].outcome = "raise" /\ probed[2].outcome = "entries"
  /\ probed[3].outcome = "entries"
  /\ result = <<min_year, min_year + 1>>

\* C8: the dumper exits 2 on an invalid date before any fetch, 1 on a
\* provider exception, 1 on an absent snapshot with nothing printed or
\* written; a non-empty snapshot of another date gives a warning and the
\* run goes on to the table and the requested files with exit 0; a snapshot
\* of the requested date gives no warning.
C8_DumperOutcome ==
  /\ args.date = BadDate => fetches = 0
  /\ pc = "exit" =>
       /\ args.date = BadDate =>
            exit_code = 2 /\ ~table /\ ~json_file /\ ~csv_file /\ ~warned
       /\ (args.date # BadDate /\ chart = NoChart) =>
            exit_code = 1 /\ ~table /\ ~json_file /\ ~csv_file
       /\ (fetches = 1 /\ chart # NoChart /\ Len(chart.entries) = 0) =>
            exit_code = 1 /\ ~table /\ ~json_file /\ ~csv_file /\ ~warned
       /\ (Len(chart.entries) > 0 /\ chart.date # args.date) =>
            /\ warned /\ exit_code = 0 /\ table
            /\ json_file = args.json /\ csv_file = args.csv
       /\ (Len(chart.entries) > 0 /\ chart.date = args.date) =>
            /\ ~warned /\ exit_code = 0 /\ table
            /\ json_file = args.json /\ csv_file = args.csv

C8_Witness ==
  /\ pc = "exit" /\ exit_code = 0 /\ warned /\ table
  /\ json_file /\ csv_file
  /\ Len(chart.entries) > 0 /\ chart.date # args.date

RECURSIVE LeastFree(_, _)
LeastFree(taken, n) == IF n \in taken THEN LeastFree(taken, n + 1) ELSE n

\* C3: without --out the file written did not exist before the write: the
\* plain <slug>-<date>.json when free, otherwise <slug>-<date>-n.json for the
\* least free n >= 1.
C3_DefaultPathIsFree ==
  args.out = <<>> =>
    \A i \in 1..Len(writes) :
      /\ ~writes[i].existed
      /\ writes[i].path =
           Path(writes[i].doc.date,
                IF 0 \in writes[i].prior THEN LeastFree(writes[i].prior, 1) ELSE 0)

C3_Witness ==
  /\ args.out = <<>> /\ Len(writes) = 2
  /\ writes[1].path = Path(1, 2) /\ writes[1].prior = {0, 1}
  /\ writes[2].path = Path(1, 3)

\* C4 as stated: a successful --since run leaves as many distinct documents
\* as there are valid dates on or after the since-date, written in ascending
\* date order, whatever the flags.
C4_OneDocumentPerDate ==
  (pc = "exit" /\ exit_code = 0 /\ args.since # None) =>
     /\ Cardinality({ writes[i].path : i \in 1..Len(writes) }) =
          Cardinality({ d \in SetOf(dates) : d >= args.since })
     /\ \A i \in 1..Len(writes) : \A j \in 1..Len(writes) :
          i < j => writes[i].week < writes[j].week

C7_LastWeekNormalised ==
  \A i \in 1..Len(writes) :
    LET es == writes[i].entries
        data == fs[writes[i].path].data
    IN fs[writes[i].path] = writes[i].doc =>
         /\ Len(data) = Len(es)
         /\ \A k \in 1..Len(es) :
              /\ data[k].this_week = es[k].rank
              /\ es[k].lastPos \in {None, 0} => data[k].last_week = None
              /\ es[k].lastPos \notin {None, 0} => data[k].last_week = es[k].lastPos

C7_Witness ==
  /\ pc = "exit" /\ exit_code = 0 /\ Len(writes) = 1
  /\ Len(writes[1].entries) = 2
  /\ writes[1].entries[1].lastPos = 0 /\ writes[1].entries[2].lastPos = 1
  /\ writes[1].entries[1].rank = 2
  /\ fs[writes[1].path].data[1].last_week = None
  /\ fs[writes[1].path].data[2].last_week = 1

====
